---- MODULE Spec2Model ----
(***************************************************************************)
(* A model of the bsp crate (src/src/lib.rs): the lump directory `Bsp`,    *)
(* built by `parse` from a byte buffer, its 64 `RefCell` lump cells with   *)
(* their run-time borrow flags, the guards handed out by lump, lump_mut,   *)
(* lump_cast and lump_cast_mut, the mutations a caller can make through a  *)
(* write guard, and `write_to_io`, whose writer is the caller's code and    *)
(* can use the Bsp in each of its write_all calls.                         *)
(*                                                                         *)
(* usize is taken to be 64 bits wide, so that u32 + u32 never overflows a  *)
(* usize; u32 fields keep their width (arithmetic modulo 2^32).            *)
(***************************************************************************)
EXTENDS Integers, Sequences, FiniteSets, Bags

(***************************************************************************)
(* Sizes and offsets.  A usize or u32 value is kept as a pair <<hi, lo>>   *)
(* that stands for hi * 2^16 + lo, with 0 <= lo < 2^16, so that values of  *)
(* 2^32 and more are representable and `as u32` is computed, not assumed.  *)
(***************************************************************************)
LIMB == 65536

usize(n) == <<n \div LIMB, n % LIMB>>

u_add(a, b) == <<a[1] + b[1] + ((a[2] + b[2]) \div LIMB), (a[2] + b[2]) % LIMB>>

u_le(a, b) == a[1] < b[1] \/ (a[1] = b[1] /\ a[2] <= b[2])

u_lt(a, b) == a[1] < b[1] \/ (a[1] = b[1] /\ a[2] < b[2])

\* a - b, for b <= a
u_sub(a, b) ==
    IF a[2] >= b[2] THEN <<a[1] - b[1], a[2] - b[2]>>
    ELSE <<a[1] - b[1] - 1, a[2] + LIMB - b[2]>>

\* usize::saturating_sub
saturating_sub(a, b) == IF u_le(b, a) THEN u_sub(a, b) ELSE usize(0)

\* `x as u32` of a usize: the low 32 bits
as_u32(x) == <<x[1] % LIMB, x[2]>>

\* 2^32 as a usize
U32 == <<LIMB, 0>>

(***************************************************************************)
(* Byte strings.  A byte string is kept run-length coded, as a sequence of *)
(* runs <<byte, count>> with count > 0 and no two neighbouring runs of the *)
(* same byte, so that every byte string has exactly one representation     *)
(* and buffers of several GiB stay representable.  The operators work by   *)
(* halves, which keeps their evaluation shallow.                           *)
(***************************************************************************)
\* a followed by b, for run-length coded a and b
BCat(a, b) ==
    IF a = <<>> THEN b
    ELSE IF b = <<>> THEN a
    ELSE IF a[Len(a)][1] = b[1][1]
         THEN SubSeq(a, 1, Len(a) - 1)
                  \o <<(<<b[1][1], u_add(a[Len(a)][2], b[1][2])>>)>> \o Tail(b)
         ELSE a \o b

\* the run-length coding of a sequence of runs
RECURSIVE Norm(_)
Norm(r) ==
    IF Len(r) = 0 THEN <<>>
    ELSE IF Len(r) = 1 THEN (IF r[1][2] = usize(0) THEN <<>> ELSE r)
    ELSE BCat(Norm(SubSeq(r, 1, Len(r) \div 2)),
              Norm(SubSeq(r, (Len(r) \div 2) + 1, Len(r))))

FromSeq(s) == Norm([k \in 1..Len(s) |-> <<s[k], usize(1)>>])

\* n bytes b
Fill(b, n) == IF n = usize(0) THEN <<>> ELSE << <<b, n>> >>

\* the number of bytes of r
RECURSIVE BLen(_)
BLen(r) ==
    IF Len(r) = 0 THEN usize(0)
    ELSE IF Len(r) = 1 THEN r[1][2]
    ELSE u_add(BLen(SubSeq(r, 1, Len(r) \div 2)),
               BLen(SubSeq(r, (Len(r) \div 2) + 1, Len(r))))

\* the first n bytes of r (all of r when it is shorter)
RECURSIVE BTake(_, _)
BTake(r, n) ==
    IF n = usize(0) \/ Len(r) = 0 THEN <<>>
    ELSE IF Len(r) = 1 THEN <<(<<r[1][1], IF u_le(n, r[1][2]) THEN n ELSE r[1][2]>>)>>
    ELSE LET left == SubSeq(r, 1, Len(r) \div 2)
             ll   == BLen(left)
         IN  IF u_le(n, ll) THEN BTake(left, n)
             ELSE left \o BTake(SubSeq(r, (Len(r) \div 2) + 1, Len(r)), u_sub(n, ll))

\* r without its first n bytes
RECURSIVE BDrop(_, _)
BDrop(r, n) ==
    IF n = usize(0) \/ Len(r) = 0 THEN r
    ELSE IF Len(r) = 1
         THEN (IF u_lt(n, r[1][2]) THEN <<(<<r[1][1], u_sub(r[1][2], n)>>)>> ELSE <<>>)
    ELSE LET left == SubSeq(r, 1, Len(r) \div 2)
             ll   == BLen(left)
         IN  IF u_lt(n, ll) THEN BDrop(left, n) \o SubSeq(r, (Len(r) \div 2) + 1, Len(r))
             ELSE BDrop(SubSeq(r, (Len(r) \div 2) + 1, Len(r)), u_sub(n, ll))

\* &r[from .. from + len], for a range inside r
BSlice(r, from, len) == BTake(BDrop(r, from), len)

\* the plain sequence of the bytes of r, for r shorter than 2^16 bytes
RECURSIVE Expand(_)
Expand(r) ==
    IF Len(r) = 0 THEN <<>>
    ELSE IF Len(r) = 1 THEN [k \in 1..r[1][2][2] |-> r[1][1]]
    ELSE Expand(SubSeq(r, 1, Len(r) \div 2)) \o Expand(SubSeq(r, (Len(r) \div 2) + 1, Len(r)))

\* r with r[k] = b, for k < BLen(r)
BSet(r, k, b) == BCat(BCat(BTake(r, k), Fill(b, usize(1))), BDrop(r, u_add(k, usize(1))))

\* Vec::resize(n, b)
BResize(r, n, b) ==
    IF u_le(n, BLen(r)) THEN BTake(r, n) ELSE BCat(r, Fill(b, u_sub(n, BLen(r))))

(***************************************************************************)
(* Fixed-layout records (lib.rs 10-46), little-endian, #[repr(C)].         *)
(***************************************************************************)
LUMP_DEF_COUNT == 64

Slots == 0 .. (LUMP_DEF_COUNT - 1)

\* size_of::<LumpMetadata>() : u32 + [u8; 4]
METADATA_SIZE == 4 + 4

\* size_of::<LumpDef>() : u32 + u32 + LumpMetadata
LUMP_DEF_SIZE == 4 + 4 + METADATA_SIZE

\* size_of::<Header>() : [u8; 4] + u32 + [LumpDef; 64] + i32
HEADER_SIZE == 4 + 4 + LUMP_DEF_COUNT * LUMP_DEF_SIZE + 4

\* align_of::<Header>() : that of its u32 fields
HEADER_ALIGN == 4

\* the byte string of the two bytes x, y
bytes2(x, y) ==
    IF x = y THEN << <<x, <<0, 2>> >> >> ELSE << <<x, <<0, 1>> >>, <<y, <<0, 1>> >> >>

\* the byte string of the four bytes b
bytes4(b) == BCat(bytes2(b[1], b[2]), bytes2(b[3], b[4]))

\* the four bytes of a u32, least significant first
u32_bytes(x) == bytes4(<< x[2] % 256, x[2] \div 256, x[1] % 256, x[1] \div 256 >>)

\* the four bytes of an i32 (two's complement), least significant first
i32_bytes(x) ==
    LET lo == x % LIMB
        hi == ((x - lo) \div LIMB) % LIMB
    IN  u32_bytes(<<hi, lo>>)

\* the u32 at s[p+1 .. p+4] of a plain sequence of bytes
u32_at(s, p) == <<s[p + 3] + 256 * s[p + 4], s[p + 1] + 256 * s[p + 2]>>

\* the i32 at s[p+1 .. p+4]
i32_at(s, p) ==
    s[p + 1] + 256 * s[p + 2] + 65536 * s[p + 3]
        + 16777216 * (IF s[p + 4] >= 128 THEN s[p + 4] - 256 ELSE s[p + 4])

LumpMetadata(version, identifier) == [version |-> version, identifier |-> identifier]

LumpDef(offset, length, metadata) ==
    [offset |-> offset, length |-> length, metadata |-> metadata]

\* IntoBytes::as_bytes of a LumpDef
lump_def_bytes(d) ==
    BCat(BCat(u32_bytes(d.offset), u32_bytes(d.length)),
         BCat(u32_bytes(d.metadata.version), bytes4(d.metadata.identifier)))

\* the bytes of the n definitions from defs[i] on, in order
RECURSIVE lump_defs_bytes(_, _, _)
lump_defs_bytes(defs, i, n) ==
    IF n = 0 THEN <<>>
    ELSE IF n = 1 THEN lump_def_bytes(defs[i])
    ELSE BCat(lump_defs_bytes(defs, i, n \div 2),
              lump_defs_bytes(defs, i + (n \div 2), n - (n \div 2)))

\* IntoBytes::as_bytes of a Header
as_bytes(h) ==
    BCat(BCat(BCat(bytes4(h.identifier), u32_bytes(h.version)),
              lump_defs_bytes(h.lump_defs, 0, LUMP_DEF_COUNT)),
         i32_bytes(h.revision))

\* the Header that the first HEADER_SIZE bytes of r are (FromBytes)
header_from_bytes(r) ==
    LET s == Expand(BTake(r, usize(HEADER_SIZE)))
        def(i) ==
            LET p == 8 + i * LUMP_DEF_SIZE
            IN  LumpDef(u32_at(s, p), u32_at(s, p + 4),
                        LumpMetadata(u32_at(s, p + 8), SubSeq(s, p + 13, p + 16)))
    IN  [identifier |-> SubSeq(s, 1, 4),
         version    |-> u32_at(s, 4),
         lump_defs  |-> [i \in Slots |-> def(i)],
         revision   |-> i32_at(s, HEADER_SIZE - 4)]

(***************************************************************************)
(* Cow and LumpCell (lib.rs 49-60).  A Cow<[u8]> is Borrowed, a range      *)
(* [from, from + len) of the input bytes that follow the header, or Owned, *)
(* a private byte string.  A LumpCell is a RefCell: its borrow flag (> 0:  *)
(* that many Ref, < 0: that many RefMut, as in core::cell) and its value,  *)
(* the pair (Cow<LumpMetadata>, Cow<[u8]>).                                *)
(***************************************************************************)
Borrowed(from, len) == [owned |-> FALSE, from |-> from, len |-> len, bytes |-> <<>>]

Owned(bytes) == [owned |-> TRUE, from |-> usize(0), len |-> usize(0), bytes |-> bytes]

CowMeta(owned, value) == [owned |-> owned, value |-> value]

LumpCell(flag, meta, data) == [flag |-> flag, meta |-> meta, data |-> data]

\* the bytes a Cow<[u8]> derefs to, `rs` being the input after the header
cow_bytes(rs, c) == IF c.owned THEN c.bytes ELSE BSlice(rs, c.from, c.len)

\* a to_mut that clones the borrowed range again on every call
to_mut_again(rs, c) == Owned(BSlice(rs, c.from, c.len))

\* Cow::to_mut: clone the borrowed bytes on the first call, then the same Vec
to_mut(rs, c) == IF c.owned THEN c ELSE Owned(BSlice(rs, c.from, c.len))

\* Cow::to_mut of the metadata
to_mut_meta(m) == CowMeta(TRUE, m.value)

(***************************************************************************)
(* Bsp::parse (lib.rs 63-94).  `addr` is the address of data[0].           *)
(***************************************************************************)
Failure(res, err) == [res |-> res, err |-> err]

\* Header::ref_from_prefix (zerocopy): alignment is checked, then the size
ref_from_prefix(data, addr) ==
    IF addr % HEADER_ALIGN # 0 THEN Failure("Err", "Alignment")
    ELSE IF u_lt(BLen(data), usize(HEADER_SIZE)) THEN Failure("Err", "Size")
    ELSE [res |-> "Ok", err |-> "", header |-> header_from_bytes(data),
          data |-> BDrop(data, usize(HEADER_SIZE))]

\* the offset, relative to the end of the header, of a lump definition (line 78)
local_offset(def) == saturating_sub(def.offset, usize(HEADER_SIZE))

\* the assertion of line 80
parse_in_bounds(def, rest_len) == u_le(u_add(local_offset(def), def.length), rest_len)

\* a closure that slices the data at the offset in the file
parse_lump_absolute(def) ==
    LumpCell(0, CowMeta(FALSE, def.metadata), Borrowed(def.offset, def.length))

\* the closure of lines 68-86, on a definition that passed the assertion
parse_lump(def) ==
    LumpCell(0, CowMeta(FALSE, def.metadata), Borrowed(local_offset(def), def.length))

parse(data, addr) ==
    LET r == ref_from_prefix(data, addr)
    IN  IF r.res # "Ok" THEN r
        ELSE IF \E i \in Slots : ~parse_in_bounds(r.header.lump_defs[i], BLen(r.data))
             THEN Failure("Panic", "assert")
             ELSE [res |-> "Ok", err |-> "", header |-> r.header, data |-> r.data,
                   lumps |-> [i \in Slots |-> parse_lump(r.header.lump_defs[i])]]

(***************************************************************************)
(* core::cell::RefCell: the borrow flag of a cell.                         *)
(***************************************************************************)
\* a borrow that is granted on an unborrowed cell only
can_borrow_unshared(flag) == flag = 0

\* RefCell::borrow is granted (else it panics: "already mutably borrowed")
can_borrow(flag) == flag >= 0

\* a borrow_mut that is granted beside shared borrows
can_borrow_mut_shared(flag) == flag >= 0

\* RefCell::borrow_mut is granted (else it panics: "already borrowed")
can_borrow_mut(flag) == flag = 0

(***************************************************************************)
(* Guards.  A guard is what an accessor returned and the caller still      *)
(* holds: `idx` is the index the caller asked for, `cell` the cell the     *)
(* guard points into, `mut` tells a RefMut from a Ref, and `size` is       *)
(* size_of::<T>() of a typed guard, which is 0 for a zero-sized T, and     *)
(* SplitPair for a plain one.  A plain guard is the pair that map_split    *)
(* made, a view of the metadata and one of the data, held and dropped      *)
(* together; a typed guard is a view of the data.                          *)
(***************************************************************************)
Guard(idx, cell, mut, size) == [idx |-> idx, cell |-> cell, mut |-> mut, size |-> size]

\* the size field of a plain guard, which is a guard of no cast type
SplitPair == -2

NoGuard == Guard(0, 0, FALSE, SplitPair)

\* a guard that points to cell 0 whatever cell it was made on
guard_cell_first(g) == 0

\* the cell a guard points to
guard_cell(g) == g.cell

\* a guard that holds one Ref or RefMut whatever its kind
Halves_one(g) == 1

\* the number of Ref or RefMut a guard holds on its cell
Halves(g) == IF g.size = SplitPair THEN 2 ELSE 1

Outcome(res, err, ls, g) == [res |-> res, err |-> err, lumps |-> ls, guard |-> g]

(***************************************************************************)
(* Bsp::lump_cell (lib.rs 191-199): the cell of an index, or a panic.      *)
(***************************************************************************)
\* the first cell for every index
lump_cell_first(index) == 0

\* the position in Bsp::lumps of the cell of an index (line 198)
lump_cell_index(index) == index

lump_cell(index) ==
    IF index < LUMP_DEF_COUNT
    THEN [res |-> "Ok", cell |-> lump_cell_index(index)]
    ELSE [res |-> "Panic", cell |-> 0]

(***************************************************************************)
(* Bsp::lump (lib.rs 175-181): Ref::map_split of cell.borrow().            *)
(***************************************************************************)
lump(ls, index) ==
    LET c == lump_cell(index)
    IN  IF c.res # "Ok" THEN Outcome("Panic", "index", ls, NoGuard)
        ELSE IF ~can_borrow(ls[c.cell].flag)
             THEN Outcome("Panic", "BorrowError", ls, NoGuard)
             ELSE Outcome("Ok", "", [ls EXCEPT ![c.cell].flag = @ + 2],
                          Guard(index, c.cell, FALSE, SplitPair))

(***************************************************************************)
(* Bsp::lump_mut (lib.rs 183-189): RefMut::map_split of cell.borrow_mut(). *)
(***************************************************************************)
lump_mut(ls, index) ==
    LET c == lump_cell(index)
    IN  IF c.res # "Ok" THEN Outcome("Panic", "index", ls, NoGuard)
        ELSE IF ~can_borrow_mut(ls[c.cell].flag)
             THEN Outcome("Panic", "BorrowMutError", ls, NoGuard)
             ELSE Outcome("Ok", "", [ls EXCEPT ![c.cell].flag = @ - 2],
                          Guard(index, c.cell, TRUE, SplitPair))

(***************************************************************************)
(* T::ref_from_bytes and T::mut_from_bytes (zerocopy) for a type T of      *)
(* size_of T.size and align_of T.align: the address of the bytes must be a *)
(* multiple of the alignment and the byte length must be the size.         *)
(* aligned tells whether the address of the bytes is a multiple of T.align.*)
(***************************************************************************)
\* a cast that accepts every prefix of the right size
ref_from_prefix_bytes(T, bytes, aligned) == aligned /\ u_le(usize(T.size), BLen(bytes))

ref_from_bytes(T, bytes, aligned) == aligned /\ BLen(bytes) = usize(T.size)

(***************************************************************************)
(* Whether the bytes of payload d start at a multiple of align. A Borrowed *)
(* payload is &data[from..]: its address is base + from, base the address  *)
(* of the bytes after the header. An Owned payload is a Vec<u8>, allocated *)
(* with alignment 1: where it lies is the allocator's choice, vec_aligned; *)
(* every address is a multiple of 1.  align is a power of two: it divides  *)
(* LIMB or is a multiple of it, and from_mod is d.from modulo align.       *)
(***************************************************************************)
payload_aligned(d, align, base, vec_aligned) ==
    LET from_mod == IF align <= LIMB THEN d.from[2] % align
                    ELSE (d.from[1] % (align \div LIMB)) * LIMB + d.from[2]
    IN  IF d.owned THEN align = 1 \/ vec_aligned
        ELSE ((base % align) + from_mod) % align = 0

\* a shared cast that takes the data as the mutable cast does
lump_cast_data_to_mut(rs, d) == to_mut(rs, d)

\* the data the closure of lump_cast sees: &v.1
lump_cast_data(rs, d) == d

\* the data the closure of lump_cast_mut sees: v.1.to_mut()
lump_cast_mut_data(rs, d) == to_mut(rs, d)

(***************************************************************************)
(* Bsp::lump_cast (lib.rs 125-147): Ref::filter_map of cell.borrow(); the  *)
(* Ref is dropped when the cast fails.                                     *)
(***************************************************************************)
lump_cast(ls, rs, index, T, base, vec_aligned) ==
    LET c == lump_cell(index)
    IN  IF c.res # "Ok" THEN Outcome("Panic", "index", ls, NoGuard)
        ELSE IF ~can_borrow(ls[c.cell].flag)
             THEN Outcome("Panic", "BorrowError", ls, NoGuard)
             ELSE LET d  == lump_cast_data(rs, ls[c.cell].data)
                      l1 == [ls EXCEPT ![c.cell].data = d]
                  IN  IF ref_from_bytes(T, cow_bytes(rs, d),
                                        payload_aligned(d, T.align, base, vec_aligned))
                      THEN Outcome("Ok", "", [l1 EXCEPT ![c.cell].flag = @ + 1],
                                   Guard(index, c.cell, FALSE, T.size))
                      ELSE Outcome("Err", "CastError", l1, NoGuard)

(***************************************************************************)
(* Bsp::lump_cast_mut (lib.rs 149-173): RefMut::filter_map of              *)
(* cell.borrow_mut(); to_mut() runs before the cast is tried.              *)
(***************************************************************************)
lump_cast_mut(ls, rs, index, T, base, vec_aligned) ==
    LET c == lump_cell(index)
    IN  IF c.res # "Ok" THEN Outcome("Panic", "index", ls, NoGuard)
        ELSE IF ~can_borrow_mut(ls[c.cell].flag)
             THEN Outcome("Panic", "BorrowMutError", ls, NoGuard)
             ELSE LET d  == lump_cast_mut_data(rs, ls[c.cell].data)
                      l1 == [ls EXCEPT ![c.cell].data = d]
                  IN  IF ref_from_bytes(T, cow_bytes(rs, d),
                                        payload_aligned(d, T.align, base, vec_aligned))
                      THEN Outcome("Ok", "", [l1 EXCEPT ![c.cell].flag = @ - 1],
                                   Guard(index, c.cell, TRUE, T.size))
                      ELSE Outcome("Err", "CastError", l1, NoGuard)

(***************************************************************************)
(* Bsp::write_to_io (lib.rs 96-123).                                       *)
(***************************************************************************)
\* one step of the fold of lines 104-114, on slot i: st is the header's
\* definitions and the accumulator
update_lump_def(st, ls, rs, i) ==
    LET offset == as_u32(st.acc)
        length == as_u32(BLen(cow_bytes(rs, ls[i].data)))
    IN  [defs |-> [st.defs EXCEPT ![i] = LumpDef(offset, length, ls[i].meta.value)],
         acc  |-> u_add(offset, length)]

\* the steps of the fold on the n slots from i on, in index order: those on
\* the first half of the range, then those on the second half from the state
\* `mid` that the first half gave
RECURSIVE update_lump_defs(_, _, _, _, _)
update_lump_defs(st, ls, rs, i, n) ==
    IF n = 0 THEN st
    ELSE IF n = 1 THEN update_lump_def(st, ls, rs, i)
    ELSE CHOOSE r \in {update_lump_defs(mid, ls, rs, i + (n \div 2), n - (n \div 2)) :
                          mid \in {update_lump_defs(st, ls, rs, i, n \div 2)}} : TRUE

\* the bytes of the n lumps from slot i on, in index order (lines 118-121)
RECURSIVE lump_bytes(_, _, _, _)
lump_bytes(ls, rs, i, n) ==
    IF n = 0 THEN <<>>
    ELSE IF n = 1 THEN cow_bytes(rs, ls[i].data)
    ELSE BCat(lump_bytes(ls, rs, i, n \div 2),
              lump_bytes(ls, rs, i + (n \div 2), n - (n \div 2)))

\* the header that is written: the clone of line 101 after the fold
updated_header(hdr, ls, rs) ==
    [hdr EXCEPT !.lump_defs =
        update_lump_defs([defs |-> hdr.lump_defs, acc |-> usize(HEADER_SIZE)],
                         ls, rs, 0, LUMP_DEF_COUNT).defs]

\* The start of write_to_io, lines 101-114: the header is cloned and the fold
\* recomputes its definitions.  lump_iter borrows every cell in turn, which
\* panics on a cell that is mutably borrowed; nothing was written yet.
write_to_io_header(hdr, ls, rs) ==
    IF \E i \in Slots : ~can_borrow(ls[i].flag)
    THEN [res |-> "Panic", err |-> "BorrowError", bytes |-> <<>>]
    ELSE [res |-> "Ok", err |-> "", bytes |-> as_bytes(updated_header(hdr, ls, rs))]

\* the size field of a Ref to a whole cell, which is a Ref to no cast type
WholeCell == -1

\* `let cell = lump.borrow()` of line 119: the Ref that write_to_io holds on
\* the cell of slot i while the writer is given its bytes
writer_ref(i) == Guard(i, i, FALSE, WholeCell)

\* The write_all calls of lines 117-121 are numbered: call 0 sends the header
\* and call j, from 1 to 64, the bytes of lump j - 1.  These are the bytes that
\* the calls a to b send.
call_bytes(hbytes, ls, rs, a, b) ==
    IF b < a THEN <<>>
    ELSE IF a = 0 THEN BCat(hbytes, lump_bytes(ls, rs, 0, b))
    ELSE lump_bytes(ls, rs, a - 1, b - a + 1)

\* write_to_io from the return of call k (-1: from its first call) up to the
\* next call in which the writer uses the Bsp, call s, or to its end.  `sent`
\* is what the writer has taken so far; w is the number of the call from which
\* the writer returns an error.  When call k returns, the Ref on the cell of
\* lump k - 1 is dropped, and write_to_io returns the error when the call
\* returned one (`?`); each later call j borrows the cell of lump j - 1 first,
\* which panics when the cell is mutably borrowed, and then gives the bytes to
\* the writer.  The result is "Pending" when the writer is inside call s, of
\* which it has taken the bytes: write_to_io then holds the Ref on lump s - 1,
\* and the writer can still return an error from this call.  A writer that
\* fails a call in which it does not use the Bsp takes none of its bytes.
write_all_calls(hbytes, ls, rs, sent, k, w, s) ==
    LET ls1 == IF k >= 1 THEN [ls EXCEPT ![k - 1].flag = @ - 1] ELSE ls
        blocked(j) == j >= 1 /\ ~can_borrow(ls1[j - 1].flag)
        events == {j \in (k + 1)..LUMP_DEF_COUNT : blocked(j) \/ j = w \/ j = s}
    IN  IF k >= 0 /\ w = k
        THEN [res |-> "Err", err |-> "io", lumps |-> ls1, call |-> k, out |-> sent]
        ELSE IF events = {}
        THEN [res |-> "Ok", err |-> "", lumps |-> ls1, call |-> LUMP_DEF_COUNT,
              out |-> BCat(sent, call_bytes(hbytes, ls1, rs, k + 1, LUMP_DEF_COUNT))]
        ELSE LET j == CHOOSE e \in events : \A f \in events : e <= f
             IN  IF blocked(j)
                 THEN [res |-> "Panic", err |-> "BorrowError", lumps |-> ls1, call |-> j,
                       out |-> BCat(sent, call_bytes(hbytes, ls1, rs, k + 1, j - 1))]
                 ELSE IF j = s
                 THEN [res |-> "Pending", err |-> "", call |-> j,
                       lumps |-> IF j >= 1 THEN [ls1 EXCEPT ![j - 1].flag = @ + 1] ELSE ls1,
                       out |-> BCat(sent, call_bytes(hbytes, ls1, rs, k + 1, j))]
                 ELSE [res |-> "Err", err |-> "io", lumps |-> ls1, call |-> j,
                       out |-> BCat(sent, call_bytes(hbytes, ls1, rs, k + 1, j - 1))]

(***************************************************************************)
(* What a caller can do through a write guard (LumpRefMut, lib.rs 52, and  *)
(* RefMut<T>): each gives the cell's new value.                            *)
(***************************************************************************)
\* data.to_mut()[pos] = b, or a store through a RefMut<T>
guard_set_byte(rs, c, pos, b) ==
    [c EXCEPT !.data = Owned(BSet(cow_bytes(rs, c.data), pos, b))]

\* data.to_mut().resize(n, 0)
guard_resize(rs, c, n) ==
    [c EXCEPT !.data = Owned(BResize(cow_bytes(rs, c.data), n, 0))]

\* *data = cow
guard_replace(rs, c, cow) == [c EXCEPT !.data = cow]

\* metadata.to_mut().version = v
guard_set_version(rs, c, v) ==
    [c EXCEPT !.meta = [to_mut_meta(c.meta) EXCEPT !.value.version = v]]

(***************************************************************************)
(* The inputs: a buffer is an encoded header, cut short or followed by the *)
(* data bytes 1, 2, ... MaxData and, in the big file, by 2^32 zero bytes.  *)
(* The lump definitions are (0, 0) but for the slots 0, 1 and 63.          *)
(***************************************************************************)
MaxData == 3

\* the length of a lump that ends where a u32 offset wraps around
BigLen == u_sub(U32, usize(HEADER_SIZE))

NoMetadata == LumpMetadata(usize(0), <<0, 0, 0, 0>>)

Def(offset, length) == LumpDef(offset, length, NoMetadata)

\* the definitions of slot 0: below the header, all the data but its last
\* byte, all the data, past the end of the data by one byte and by many
FirstChoices ==
    {Def(usize(0), usize(1)),
     Def(usize(HEADER_SIZE), usize(MaxData - 1)),
     Def(usize(HEADER_SIZE), usize(MaxData)),
     Def(usize(HEADER_SIZE + 1), usize(MaxData)),
     Def(usize(HEADER_SIZE), BigLen)}

MidDef == Def(usize(HEADER_SIZE), usize(1))

LastDef == Def(usize(HEADER_SIZE + 1), usize(MaxData - 1))

\* the metadata of slot i in the input files
MetaOf(i) == LumpMetadata(usize(i + 1), <<76, 77, 80, i>>)

InputHeader(first, mid, lst) ==
    [identifier |-> <<86, 66, 83, 80>>,
     version    |-> usize(20),
     lump_defs  |-> [i \in Slots |->
                        IF i = 0 THEN LumpDef(first.offset, first.length, MetaOf(i))
                        ELSE IF i = 1 THEN LumpDef(mid.offset, mid.length, MetaOf(i))
                        ELSE IF i = LUMP_DEF_COUNT - 1
                             THEN LumpDef(lst.offset, lst.length, MetaOf(i))
                             ELSE Def(usize(0), usize(0))],
     revision   |-> -2]

Pattern(n) == FromSeq([k \in 1..n |-> k])

\* the lengths of the buffers too short for a header
ShortLens == {0, HEADER_SIZE - 1}

ShortInputs ==
    {BTake(as_bytes(InputHeader(MidDef, MidDef, LastDef)), usize(n)) : n \in ShortLens}

SmallInputs ==
    {BCat(as_bytes(InputHeader(first, MidDef, LastDef)), Pattern(MaxData)) :
        first \in FirstChoices}

\* a file of 4 GiB and more, whose first lump ends at offset 2^32
BigInput ==
    BCat(BCat(as_bytes(InputHeader(Def(usize(HEADER_SIZE), BigLen), MidDef, LastDef)),
              Pattern(MaxData)),
         Fill(0, U32))

Inputs == SmallInputs \cup {BigInput} \cup ShortInputs

\* the inputs tried at a misaligned address
MisalignedInputs ==
    {BCat(as_bytes(InputHeader(MidDef, MidDef, LastDef)), Pattern(MaxData))}
    \cup ShortInputs

\* the indices the caller asks for
Indices == {0, LUMP_DEF_COUNT - 1, LUMP_DEF_COUNT}

\* the type the caller casts to, of the size and the alignment of a u16
CastType == [size |-> 2, align |-> 2]

Types == {CastType}

MaxGuards == 2

MaxMut == 1

\* the lengths a caller resizes a lump to
ResizeLens == {BigLen, U32}

\* the payloads a caller replaces a lump's data by
Replacements == {Borrowed(usize(0), usize(1)), Owned(FromSeq(<<7, 7>>))}

\* the number of a write_all call that never comes
Never == LUMP_DEF_COUNT + 1

\* the writers: the number of the write_all call from which each returns an
\* error
Writers == {0, 2, LUMP_DEF_COUNT, Never}

\* the write_all calls in which a writer uses the Bsp: that of the header,
\* before any lump is sent, and that of the last lump, after the others
CallbackCalls == {0, LUMP_DEF_COUNT, Never}

VARIABLES
    input,      \* the caller's buffer, `data` of parse
    addr,       \* the address of input[0]
    data,       \* the input after the header, which the Borrowed lumps point into
    pc,         \* "start", "parsed" (a Bsp exists), "failed" (parse returned Err),
                \* "writing" (the writer of a write_to_io is inside write_all),
                \* "written" (write_to_io returned), "aborted" (a panic)
    header,     \* Bsp::header
    lumps,      \* Bsp::lumps
    guards,     \* the guards outstanding, a bag: those the caller holds and
                \* the Ref of a write_to_io whose writer is inside write_all
    out,        \* what write_to_io has sent to its writer
    call,       \* the write_all call the writer is inside, or was last given
    wnmut,      \* nmut when write_to_io was called
    nmut,       \* the number of mutations made through write guards
    last        \* the last operation, its index and its outcome

vars == <<input, addr, data, pc, header, lumps, guards, out, call, wnmut, nmut, last>>

\* a Bsp exists and its caller runs: between two calls, or as the writer of a
\* write_to_io
Live == pc \in {"parsed", "writing"}

NoHeader == [identifier |-> <<>>, version |-> usize(0), lump_defs |-> <<>>, revision |-> 0]

Last(op, index, res, err) == [op |-> op, index |-> index, res |-> res, err |-> err]

Init ==
    /\ \/ addr = 0 /\ input \in Inputs
       \/ addr \in 1..(HEADER_ALIGN - 1) /\ input \in MisalignedInputs
    /\ data = <<>>
    /\ pc = "start"
    /\ header = NoHeader
    /\ lumps = <<>>
    /\ guards = EmptyBag
    /\ out = <<>>
    /\ call = 0
    /\ wnmut = 0
    /\ nmut = 0
    /\ last = Last("none", 0, "Ok", "")

\* the pc after an operation
After(res) == IF res = "Panic" THEN "aborted" ELSE pc

\* let bsp = Bsp::parse(&input)
Parse ==
    /\ pc = "start"
    /\ LET r == parse(input, addr)
       IN  /\ pc' = IF r.res = "Ok" THEN "parsed" ELSE IF r.res = "Err" THEN "failed" ELSE "aborted"
           /\ header' = IF r.res = "Ok" THEN r.header ELSE header
           /\ data' = IF r.res = "Ok" THEN r.data ELSE data
           /\ lumps' = IF r.res = "Ok" THEN r.lumps ELSE lumps
           /\ last' = Last("parse", 0, r.res, r.err)
    /\ UNCHANGED <<input, addr, guards, out, call, wnmut, nmut>>

\* an accessor was called with `index` and gave the outcome r
Access(op, index, r) ==
    /\ pc' = After(r.res)
    /\ lumps' = r.lumps
    /\ guards' = IF r.res = "Ok" THEN guards (+) SetToBag({r.guard}) ELSE guards
    /\ last' = Last(op, index, r.res, r.err)
    /\ UNCHANGED <<input, addr, data, header, out, call, wnmut, nmut>>

\* let g = bsp.lump(index)
Lump(index) ==
    /\ Live /\ BagCardinality(guards) < MaxGuards
    /\ Access("lump", index, lump(lumps, index))

\* let g = bsp.lump_mut(index)
LumpMut(index) ==
    /\ Live /\ BagCardinality(guards) < MaxGuards
    /\ Access("lump_mut", index, lump_mut(lumps, index))

\* let g = bsp.lump_cast::<T, _>(index)
LumpCast(index, T, vec_aligned) ==
    /\ Live /\ BagCardinality(guards) < MaxGuards
    /\ Access("lump_cast", index,
              lump_cast(lumps, data, index, T, addr + HEADER_SIZE, vec_aligned))

\* let g = bsp.lump_cast_mut::<T, _>(index)
LumpCastMut(index, T, vec_aligned) ==
    /\ Live /\ BagCardinality(guards) < MaxGuards
    /\ Access("lump_cast_mut", index,
              lump_cast_mut(lumps, data, index, T, addr + HEADER_SIZE, vec_aligned))

\* write_to_io has got to r from call k
WriteStep(k, r) ==
    /\ pc' = IF r.res = "Pending" THEN "writing"
             ELSE IF r.res = "Panic" THEN "aborted" ELSE "written"
    /\ out' = r.out
    /\ call' = r.call
    /\ lumps' = r.lumps
    /\ guards' = (guards (-) (IF k >= 1 THEN SetToBag({writer_ref(k - 1)}) ELSE EmptyBag))
                     (+) (IF r.res = "Pending" /\ r.call >= 1
                          THEN SetToBag({writer_ref(r.call - 1)}) ELSE EmptyBag)
    /\ last' = Last("write_to_io", r.call, r.res, r.err)

\* bsp.write_to_io(writer), up to the first call in which the writer uses the
\* Bsp or, when there is none, to its end.  The run ends when write_to_io
\* returns: it takes &self and assigns nothing of the Bsp, so what can follow
\* it is what could precede it.
WriteToIo ==
    /\ pc = "parsed"
    /\ wnmut' = nmut
    /\ \E h \in {write_to_io_header(header, lumps, data)} :
           IF h.res = "Panic"
           THEN /\ pc' = "aborted"
                /\ out' = <<>>
                /\ last' = Last("write_to_io", 0, h.res, h.err)
                /\ UNCHANGED <<lumps, guards, call>>
           ELSE \E w \in Writers, s \in CallbackCalls :
                    \E r \in {write_all_calls(h.bytes, lumps, data, <<>>, -1, w, s)} :
                        WriteStep(-1, r)
    /\ UNCHANGED <<input, addr, data, header, nmut>>

\* the writer returns from the call it is inside, with Ok or with an error:
\* write_to_io goes on, or returns the error
WriteResume ==
    /\ pc = "writing"
    /\ \E w \in Writers, s \in CallbackCalls :
           /\ w >= call /\ s > call
           /\ \E r \in {write_all_calls(<<>>, lumps, data, out, call, w, s)} :
                  WriteStep(call, r)
    /\ UNCHANGED <<input, addr, data, header, wnmut, nmut>>

\* drop(g), g a guard of the caller: every Ref or RefMut of the guard gives its
\* borrow back
Drop(g) ==
    /\ Live /\ BagIn(g, guards) /\ g.size # WholeCell
    /\ guards' = guards (-) SetToBag({g})
    /\ lumps' = [lumps EXCEPT ![guard_cell(g)].flag =
                    IF g.mut THEN @ + Halves(g) ELSE @ - Halves(g)]
    /\ last' = Last("drop", g.idx, "Ok", "")
    /\ UNCHANGED <<input, addr, data, pc, header, out, call, wnmut, nmut>>

\* a mutation through the write guard g gave the cell the value c
Mutate(op, g, c) ==
    /\ lumps' = [lumps EXCEPT ![guard_cell(g)] = c]
    /\ nmut' = nmut + 1
    /\ last' = Last(op, g.idx, "Ok", "")
    /\ UNCHANGED <<input, addr, data, pc, header, guards, out, call, wnmut>>

\* a store of byte b at `pos` through the write guard g, plain or typed
SetByte(g, pos, b) ==
    /\ Live /\ nmut < MaxMut /\ BagIn(g, guards) /\ g.mut
    /\ u_lt(usize(pos), BLen(cow_bytes(data, lumps[guard_cell(g)].data)))
    /\ Mutate("set_byte", g, guard_set_byte(data, lumps[guard_cell(g)], usize(pos), b))

\* a resize through the plain write guard g
Resize(g, n) ==
    /\ Live /\ nmut < MaxMut /\ BagIn(g, guards) /\ g.mut /\ g.size = SplitPair
    /\ Mutate("resize", g, guard_resize(data, lumps[guard_cell(g)], n))

\* an assignment to the data through the plain write guard g
Replace(g, cow) ==
    /\ Live /\ nmut < MaxMut /\ BagIn(g, guards) /\ g.mut /\ g.size = SplitPair
    /\ Mutate("replace", g, guard_replace(data, lumps[guard_cell(g)], cow))

\* a change of the metadata through the plain write guard g
SetVersion(g, v) ==
    /\ Live /\ nmut < MaxMut /\ BagIn(g, guards) /\ g.mut /\ g.size = SplitPair
    /\ Mutate("set_version", g, guard_set_version(data, lumps[guard_cell(g)], v))

Held == BagToSet(guards)

Next ==
    \/ Parse
    \/ \E index \in Indices : Lump(index)
    \/ \E index \in Indices : LumpMut(index)
    \/ \E index \in Indices, T \in Types, vec_aligned \in BOOLEAN :
            LumpCast(index, T, vec_aligned)
    \/ \E index \in Indices, T \in Types, vec_aligned \in BOOLEAN :
            LumpCastMut(index, T, vec_aligned)
    \/ WriteToIo
    \/ WriteResume
    \/ \E g \in Held : Drop(g)
    \/ \E g \in Held : SetByte(g, 0, 9)
    \/ \E g \in Held, n \in ResizeLens : Resize(g, n)
    \/ \E g \in Held, cow \in Replacements : Replace(g, cow)
    \/ \E g \in Held : SetVersion(g, usize(9))

Spec == Init /\ [][Next]_vars

(***************************************************************************)
(* What the properties speak of.  Every step sets `last` to its operation, *)
(* so in a step last' tells which operation the step is.                   *)
(***************************************************************************)
ReadOps == {"lump", "lump_cast"}

WriteOps == {"lump_mut", "lump_cast_mut"}

AccessOps == ReadOps \cup WriteOps

MutationOps == {"set_byte", "resize", "replace", "set_version"}

BorrowErrors == {"BorrowError", "BorrowMutError"}

\* the guards of the bag gs that were asked for with index i
GuardsOn(gs, i) == {g \in BagToSet(gs) : g.idx = i}

\* a request `op` on index i conflicts with a guard of gs on i: a write
\* request with any guard, a read request with a write guard
Conflicts(op, i, gs) ==
    IF op \in WriteOps THEN GuardsOn(gs, i) # {} ELSE \E g \in GuardsOn(gs, i) : g.mut

\* what a caller observes of slot i of the lumps ls over the buffer rs
SlotView(rs, ls, i) ==
    [owned |-> ls[i].data.owned,
     bytes |-> cow_bytes(rs, ls[i].data),
     meta  |-> ls[i].meta.value]

\* the step is the access `op` on a slot, from a Bsp
IsAccess(ops) == Live /\ last'.op \in ops /\ last'.index \in Slots

(***************************************************************************)
(* C1.  Mutual exclusion per slot: in every reachable state, a write guard *)
(* on slot i (plain or typed) is the only guard on slot i: no other guard, *)
(* read or write, plain or typed, and no second copy of itself.            *)
(***************************************************************************)
MutualExclusion ==
    \A g \in Held :
        g.mut => /\ CopiesIn(g, guards) = 1
                 /\ \A h \in Held : h.idx = g.idx => h = g

\* a write guard on a slot is held and a request on that slot was refused
ExclusionEnforced ==
    /\ last.op \in AccessOps /\ last.err \in BorrowErrors
    /\ \E g \in Held : g.mut /\ g.idx = last.index

(***************************************************************************)
(* C2.  Conflict arbitration as an error value: a request on slot i that   *)
(* conflicts with an outstanding guard on i returns an error value, does   *)
(* not abort, and leaves the lumps and the guards as they were; a request  *)
(* that conflicts with no guard on i is not refused.                       *)
(***************************************************************************)
ConflictIsErrorValue ==
    [][IsAccess(AccessOps) =>
          IF Conflicts(last'.op, last'.index, guards)
          THEN /\ last'.res = "Err"
               /\ pc' = "parsed"
               /\ lumps' = lumps
               /\ guards' = guards
          ELSE last'.err \notin BorrowErrors]_vars

(***************************************************************************)
(* C3.  Per-slot exclusivity: a request on slot j is refused if and only   *)
(* if it conflicts with a guard outstanding on slot j itself; the guards   *)
(* on the other slots, whatever their number and kind, do not count.       *)
(***************************************************************************)
PerSlotExclusivity ==
    [][IsAccess(AccessOps) =>
          (last'.err \in BorrowErrors <=> Conflicts(last'.op, last'.index, guards))]_vars

\* a request on a slot was granted while a write guard on another slot is held
GrantedBesideOtherSlot ==
    /\ last.op \in AccessOps /\ last.res = "Ok"
    /\ \E g \in Held : g.mut /\ g.idx # last.index

(***************************************************************************)
(* C4.  Copy-on-write on write guard: a write guard granted by lump_mut or *)
(* lump_cast_mut leaves the slot's payload Owned, with the bytes it had,   *)
(* and a payload stops being Borrowed only in such a request on its slot.  *)
(* lump_mut (lib.rs 183-189) never calls to_mut: after Parse, LumpMut(0)   *)
(* the payload of slot 0 is still Borrowed.                                *)
(***************************************************************************)
CopyOnWriteOnWriteGuard ==
    [][/\ (IsAccess(WriteOps) /\ last'.res = "Ok") =>
              /\ lumps'[last'.index].data.owned
              /\ cow_bytes(data', lumps'[last'.index].data)
                     = cow_bytes(data, lumps[last'.index].data)
       /\ \A i \in Slots :
              (Live /\ ~lumps[i].data.owned /\ lumps'[i].data.owned) =>
                  (last'.op \in WriteOps /\ last'.index = i)]_vars

(***************************************************************************)
(* C5.  Read-only access never triggers copy-on-write: a lump, a lump_cast *)
(* (successful or failing) and a write_to_io leave the metadata and the    *)
(* payload of every slot, representation and bytes, as they were.          *)
(***************************************************************************)
ReadOnlyAccess ==
    [][(Live /\ last'.op \in ReadOps \cup {"write_to_io"}) =>
          /\ data' = data
          /\ \A i \in Slots : /\ lumps'[i].meta = lumps[i].meta
                              /\ lumps'[i].data = lumps[i].data]_vars

\* a lump_cast failed on a slot whose payload is still Borrowed
BorrowedAfterFailedCast ==
    /\ last.op = "lump_cast" /\ last.res = "Err"
    /\ ~lumps[last.index].data.owned

(***************************************************************************)
(* C6.  Per-slot isolation: a mutation through a write guard on slot i     *)
(* (a store, a resize, a replacement of the payload, a change of the       *)
(* metadata) leaves what is observed of every other slot j, its            *)
(* representation, bytes (so its length) and metadata, as it was, also     *)
(* when i and j were parsed from overlapping byte ranges.                  *)
(***************************************************************************)
PerSlotIsolation ==
    [][(Live /\ last'.op \in MutationOps) =>
          \A j \in Slots \ {last'.index} :
              SlotView(data', lumps', j) = SlotView(data, lumps, j)]_vars

\* the first byte of slot 0 was stored to, slot 1 was parsed from the range
\* that starts at the same byte, and slot 1 still shows the byte of the input
StoredBesideOverlap ==
    /\ last.op = "set_byte" /\ last.index = 0
    /\ local_offset(header.lump_defs[0]) = local_offset(header.lump_defs[1])
    /\ BTake(cow_bytes(data, lumps[0].data), usize(1)) # BTake(data, usize(1))
    /\ cow_bytes(data, lumps[1].data) = BTake(data, usize(1))

\* the byte length of slot i now
LumpLen(i) == BLen(cow_bytes(data, lumps[i].data))

\* the sum of the byte lengths of the n slots from i on, not reduced to 32 bits
RECURSIVE SumLen(_, _)
SumLen(i, n) ==
    IF n = 0 THEN usize(0)
    ELSE IF n = 1 THEN LumpLen(i)
    ELSE u_add(SumLen(i, n \div 2), SumLen(i + (n \div 2), n - (n \div 2)))

\* where the bytes of slot i start in a file that holds the header and then the
\* lumps in index order
Cursor(i) == u_add(usize(HEADER_SIZE), SumLen(0, i))

(***************************************************************************)
(* C7.  Offset recomputation: in the header that a write_to_io has sent,   *)
(* for every i, descriptor i has for offset the size of the header plus    *)
(* the sum of the current byte lengths of lumps 0..i-1, for length the     *)
(* current byte length of lump i, and for metadata the current metadata    *)
(* of slot i.                                                              *)
(***************************************************************************)
OffsetRecomputation ==
    (pc = "written" /\ out # <<>>) =>
        \E h \in {header_from_bytes(out)} :
            \A i \in Slots :
                /\ h.lump_defs[i].offset = Cursor(i)
                /\ h.lump_defs[i].length = LumpLen(i)
                /\ h.lump_defs[i].metadata = lumps[i].meta.value

(***************************************************************************)
(* C8.  Round trip: when parse succeeded on the input and write_to_io,     *)
(* with no mutation in between, has sent its bytes to a writer that did    *)
(* not fail, parse succeeds on these bytes and gives the identifier, the   *)
(* version and the revision of the first parse and, at every index, the    *)
(* bytes (so the length) and the metadata of the first parse.              *)
(***************************************************************************)
RoundTrip ==
    (pc = "written" /\ last.res = "Ok" /\ nmut = 0) =>
        \E p \in {parse(out, 0)} :
            /\ p.res = "Ok"
            /\ p.header.identifier = header.identifier
            /\ p.header.version = header.version
            /\ p.header.revision = header.revision
            /\ \A i \in Slots :
                   /\ cow_bytes(p.data, p.lumps[i].data) = cow_bytes(data, lumps[i].data)
                   /\ p.lumps[i].meta.value = lumps[i].meta.value

\* the buffer is too short for a header
TooShort(buf) == u_lt(BLen(buf), usize(HEADER_SIZE))

\* the buffer holds a header, one of whose descriptors has a range that ends
\* past the end of the buffer
PastTheEnd(buf) ==
    /\ ~TooShort(buf)
    /\ \E h \in {header_from_bytes(buf)} :
           \E k \in Slots :
               ~u_le(u_add(local_offset(h.lump_defs[k]), h.lump_defs[k].length),
                     u_sub(BLen(buf), usize(HEADER_SIZE)))

(***************************************************************************)
(* C9.  Parse bounds failures are error values and all-or-nothing: the     *)
(* parse of a buffer shorter than the header, and the parse of a buffer    *)
(* with a descriptor whose range ends past the end of the buffer, return   *)
(* an error and no Bsp, and do not abort.                                  *)
(***************************************************************************)
ParseBoundsAreErrorValues ==
    (last.op = "parse" /\ (TooShort(input) \/ PastTheEnd(input))) =>
        /\ last.res = "Err"
        /\ pc = "failed"
        /\ lumps = <<>>

(***************************************************************************)
(* C10.  Index bound as an error value: an access with an index of 64 or   *)
(* more returns an error value, does not abort, and leaves the lumps and   *)
(* the guards as they were; an access with an index below 64 reports no    *)
(* index error.                                                            *)
(***************************************************************************)
IndexBoundIsErrorValue ==
    [][(Live /\ last'.op \in AccessOps) =>
          IF last'.index >= LUMP_DEF_COUNT
          THEN /\ last'.res = "Err"
               /\ pc' = "parsed"
               /\ lumps' = lumps
               /\ guards' = guards
          ELSE last'.err # "index"]_vars

\* the read guards of the bag gs
ReadGuards(gs) == {g \in BagToSet(gs) : ~g.mut}

(***************************************************************************)
(* C11.  Shared reads: a lump or lump_cast on slot i is granted its borrow *)
(* whenever no write guard on i is outstanding, however many read guards   *)
(* on i are outstanding, and a lump then returns its guard; while a read   *)
(* guard on i is outstanding, down to the last one, a write request on i   *)
(* is refused.                                                             *)
(***************************************************************************)
SharedReads ==
    [][/\ (IsAccess(ReadOps) /\ ~\E g \in GuardsOn(guards, last'.index) : g.mut) =>
              /\ last'.err \notin BorrowErrors
              /\ last'.op = "lump" => last'.res = "Ok"
       /\ (IsAccess(WriteOps) /\ GuardsOn(guards, last'.index) \cap ReadGuards(guards) # {}) =>
              last'.err \in BorrowErrors
       /\ (Live /\ last'.op = "drop"
             /\ GuardsOn(guards', last'.index) \cap ReadGuards(guards') # {}) =>
              ~can_borrow_mut(lumps'[last'.index].flag)]_vars

\* a read request was granted on a slot on which a read guard was held, which
\* makes two read guards on the slot
TwoReadersOnASlot ==
    /\ last.op \in ReadOps /\ last.res = "Ok"
    /\ \E g \in ReadGuards(guards) :
           /\ g.idx = last.index
           /\ \/ CopiesIn(g, guards) >= 2
              \/ \E h \in ReadGuards(guards) \ {g} : h.idx = g.idx

\* what the borrow flag of a cell is when the guards of gs on slot i are all
\* that borrows it: a plain guard holds two borrows and a typed guard one,
\* counted up for shared borrows and down for mutable ones
RECURSIVE FlagOf(_, _)
FlagOf(gs, i) ==
    IF GuardsOn(gs, i) = {} THEN 0
    ELSE LET g == CHOOSE h \in GuardsOn(gs, i) : TRUE
             n == CopiesIn(g, gs) * Halves(g)
         IN  (IF g.mut THEN 0 - n ELSE n) + FlagOf(gs (-) [h \in {g} |-> CopiesIn(g, gs)], i)

(***************************************************************************)
(* C12.  Guaranteed guard release: in every state of a Bsp, each cell is   *)
(* borrowed by the guards the caller holds on its slot and by nothing      *)
(* else; so once every guard on slot i is dropped, and after an access on  *)
(* i that returned an error, the cell of slot i is unborrowed and a write  *)
(* request on i is granted.                                                *)
(***************************************************************************)
GuaranteedRelease ==
    /\ pc \in {"parsed", "writing", "written"} =>
           \A i \in Slots : lumps[i].flag = FlagOf(guards, i)
    /\ (Live /\ last.op \in AccessOps /\ last.res = "Err") =>
           (GuardsOn(guards, last.index) = {} => can_borrow_mut(lumps[last.index].flag))

\* a mutable cast failed on a slot on which no guard is held, and the cell
\* is unborrowed
ReleasedAfterFailedCast ==
    /\ pc = "parsed" /\ last.op = "lump_cast_mut" /\ last.res = "Err"
    /\ GuardsOn(guards, last.index) = {}
    /\ lumps[last.index].flag = 0

CastOps == {"lump_cast", "lump_cast_mut"}

\* the step is a typed cast on a slot that no outstanding guard conflicts with
IsCast == IsAccess(CastOps) /\ last'.err \notin BorrowErrors

\* the guard that the step has added is a typed guard over all of the bytes of
\* its slot, and the step has left these bytes as they were
ExposesTheLump ==
    /\ cow_bytes(data', lumps'[last'.index].data) = cow_bytes(data, lumps[last'.index].data)
    /\ \E g \in BagToSet(guards') :
           /\ CopiesIn(g, guards') > CopiesIn(g, guards)
           /\ g.idx = last'.index /\ g.size >= 0 /\ usize(g.size) = LumpLen(last'.index)

(***************************************************************************)
(* C13, as stated.  Typed cast exactness: with no conflicting guard, a     *)
(* typed cast of slot i, shared or mutable, succeeds if and only if the    *)
(* current byte length of lump i is size_of(T); a shorter or longer lump   *)
(* fails with CastError, and a successful cast exposes exactly the lump's  *)
(* bytes.                                                                  *)
(***************************************************************************)
CastExactness ==
    [][IsCast =>
           /\ last'.res = "Ok" <=> LumpLen(last'.index) = usize(CastType.size)
           /\ last'.res # "Ok" => last'.res = "Err" /\ last'.err = "CastError"
           /\ last'.res = "Ok" => ExposesTheLump]_vars

(***************************************************************************)
(* C13, amended.  With no conflicting guard, a typed cast of slot i        *)
(* succeeds only if the current byte length of lump i is size_of(T), and   *)
(* a lump of any other length fails with CastError; a lump of the right    *)
(* length also fails with CastError when its bytes do not start at a       *)
(* multiple of align_of(T): a shared cast of a Borrowed lump succeeds if   *)
(* and only if the length is size_of(T) and the address of the lump in the *)
(* input buffer is a multiple of align_of(T). A successful cast exposes    *)
(* exactly the lump's bytes.                                               *)
(***************************************************************************)
CastExactToSizeAndAlignment ==
    [][IsCast =>
           /\ last'.res = "Ok" => LumpLen(last'.index) = usize(CastType.size)
           /\ last'.res # "Ok" => last'.res = "Err" /\ last'.err = "CastError"
           /\ (last'.op = "lump_cast" /\ ~lumps[last'.index].data.owned) =>
                  (last'.res = "Ok" <=>
                       /\ LumpLen(last'.index) = usize(CastType.size)
                       /\ (addr + HEADER_SIZE + lumps[last'.index].data.from[2])
                              % CastType.align = 0)
           /\ last'.res = "Ok" => ExposesTheLump]_vars

\* a typed guard is held on slot 0 and a cast of a lump of the right length
\* that starts at an odd address has failed
CastRefusedByAlignment ==
    /\ \E g \in Held : g.idx = 0 /\ g.size = CastType.size
    /\ pc = "parsed" /\ last.op = "lump_cast" /\ last.err = "CastError"
    /\ last.index \in Slots
    /\ ~lumps[last.index].data.owned
    /\ LumpLen(last.index) = usize(CastType.size)

(***************************************************************************)
(* C14.  write_to_io fails only as the sink fails: called in any reachable *)
(* state, with read guards or a write guard outstanding on some slot, it   *)
(* completes with Ok or returns the sink's I/O error and never aborts, and *)
(* it leaves the borrow state of every slot as it was.                     *)
(***************************************************************************)
WriteFailsOnlyAsTheSink ==
    [][(Live /\ last'.op = "write_to_io") =>
           /\ last'.res \in {"Ok", "Err", "Pending"}
           /\ last'.res = "Err" => last'.err = "io"
           /\ last'.res \in {"Ok", "Err"} =>
                  /\ guards' = [g \in {h \in Held : h.size # WholeCell} |-> guards[g]]
                  /\ \A i \in Slots : lumps'[i].flag = FlagOf(guards', i)]_vars

(***************************************************************************)
(* C15.  A failed mutable cast is never partially satisfied: when          *)
(* lump_cast_mut returns CastError on slot i, slot i is as it was before   *)
(* the call: the same bytes, the same metadata, the same representation (a *)
(* Borrowed payload is still Borrowed) and no guard held.                  *)
(***************************************************************************)
FailedMutableCastChangesNothing ==
    [][(IsAccess({"lump_cast_mut"}) /\ last'.res = "Err") =>
           /\ SlotView(data', lumps', last'.index) = SlotView(data, lumps, last'.index)
           /\ lumps'[last'.index].flag = lumps[last'.index].flag
           /\ guards' = guards]_vars

\* descriptor i of the directory's own header describes slot i as it is now
DescribesSlot(i) ==
    /\ header.lump_defs[i].length = LumpLen(i)
    /\ header.lump_defs[i].metadata = lumps[i].meta.value

(***************************************************************************)
(* C16.  Descriptor/payload correspondence: in every reachable state in    *)
(* which no lump has been mutated since the last parse or the last         *)
(* write_to_io, descriptor i of the directory's own header has the current *)
(* byte length and the current metadata of slot i, for every i; so it has  *)
(* again right after a write_to_io that followed a resize or a change of   *)
(* metadata.                                                               *)
(***************************************************************************)
DescriptorPayloadCorrespondence ==
    ((Live /\ nmut = 0) \/ (pc = "written" /\ last.res = "Ok")) =>
        \A i \in Slots : DescribesSlot(i)

\* the correspondence in the states in which nothing was mutated since parse
CorrespondenceAfterParse ==
    (pc \in {"parsed", "writing", "written"} /\ nmut = 0) => \A i \in Slots : DescribesSlot(i)

\* the first n lumps, one after the other, as they are now
RECURSIVE LumpsInOrder(_, _)
LumpsInOrder(i, n) ==
    IF n = 0 THEN <<>>
    ELSE IF n = 1 THEN cow_bytes(data, lumps[i].data)
    ELSE BCat(LumpsInOrder(i, n \div 2), LumpsInOrder(i + (n \div 2), n - (n \div 2)))

\* the output is a header and then the lumps in index order, nothing between
HeaderThenLumps ==
    /\ BLen(out) = Cursor(LUMP_DEF_COUNT)
    /\ Norm(BDrop(out, usize(HEADER_SIZE))) = Norm(LumpsInOrder(0, LUMP_DEF_COUNT))
    /\ \E h \in {header_from_bytes(out)} :
           /\ h.identifier = header.identifier
           /\ h.version = header.version
           /\ h.revision = header.revision

(***************************************************************************)
(* C17.  Output stream layout: what write_to_io sends to a sink that does  *)
(* not fail is the encoded header, of 1036 bytes, and then the current     *)
(* bytes of lumps 0 to 63 in index order with nothing between them: its    *)
(* length is the header size plus the sum of the current lump lengths, and *)
(* for every i the bytes of the output from the offset of descriptor i,    *)
(* as many as its length, are the current bytes of lump i.                 *)
(***************************************************************************)
OutputLayout ==
    (pc = "written" /\ last.res = "Ok") =>
        /\ HeaderThenLumps
        /\ \E h \in {header_from_bytes(out)} :
               \A i \in Slots :
                   Norm(BSlice(out, h.lump_defs[i].offset, h.lump_defs[i].length))
                       = Norm(cow_bytes(data, lumps[i].data))

\* the layout without what the descriptors say, when the writer has mutated no
\* lump during the write
SequentialLayout ==
    (pc = "written" /\ last.res = "Ok" /\ nmut = wnmut) => HeaderThenLumps

\* the layout, descriptors included, of an output shorter than 2^32 bytes, when
\* the writer has mutated no lump during the write
LayoutBelowWrap ==
    (pc = "written" /\ last.res = "Ok" /\ nmut = wnmut
        /\ u_lt(Cursor(LUMP_DEF_COUNT), U32)) =>
        \E h \in {header_from_bytes(out)} :
            \A i \in Slots :
                Norm(BSlice(out, h.lump_defs[i].offset, h.lump_defs[i].length))
                    = Norm(cow_bytes(data, lumps[i].data))

\* where the bytes of a lump defined at `offset` of the file start in the bytes
\* after the header: max(offset - size_of(Header), 0)
LocalStart(offset) ==
    IF u_lt(offset, usize(HEADER_SIZE)) THEN usize(0) ELSE u_sub(offset, usize(HEADER_SIZE))

(***************************************************************************)
(* C18.  Parse result: when parse has succeeded, all 64 slots are there,   *)
(* every slot is Borrowed and no guard is outstanding; the bytes of slot i *)
(* are remaining[local .. local + length_i], remaining being the buffer    *)
(* after the header and local = max(offset_i - size_of(Header), 0), and    *)
(* its metadata is that of descriptor i. A descriptor whose offset is      *)
(* below the header size is not rejected: it is read from the first byte   *)
(* after the header.                                                       *)
(***************************************************************************)
ParseResult ==
    (last.op = "parse" /\ last.res = "Ok") =>
        /\ pc = "parsed"
        /\ DOMAIN lumps = Slots
        /\ guards = EmptyBag
        /\ \E h \in {header_from_bytes(input)} :
               \A i \in Slots :
                   /\ lumps[i].flag = 0
                   /\ ~lumps[i].data.owned /\ ~lumps[i].meta.owned
                   /\ Norm(cow_bytes(data, lumps[i].data))
                          = Norm(BTake(BDrop(BDrop(input, usize(HEADER_SIZE)),
                                             LocalStart(h.lump_defs[i].offset)),
                                       h.lump_defs[i].length))
                   /\ LumpLen(i) = h.lump_defs[i].length
                   /\ lumps[i].meta.value = h.lump_defs[i].metadata

\* parse has succeeded on a file one of whose descriptors has an offset below
\* the header size and another an offset above it, and both slots have bytes
ParsedBelowTheHeader ==
    /\ last.op = "parse" /\ last.res = "Ok"
    /\ u_lt(header.lump_defs[0].offset, usize(HEADER_SIZE))
    /\ LumpLen(0) = usize(1)
    /\ u_lt(usize(HEADER_SIZE), header.lump_defs[LUMP_DEF_COUNT - 1].offset)
    /\ LumpLen(LUMP_DEF_COUNT - 1) # usize(0)

(***************************************************************************)
(* C19, as stated.  Copy-on-write is one-way and happens at most once per  *)
(* slot: once the payload of slot i is Owned, no operation (an accessor, a *)
(* mutation through a write guard, a cast, write_to_io) returns it to      *)
(* Borrowed, and no second copy of the input is made for the slot.         *)
(***************************************************************************)
CopyOnWriteOneWay ==
    [][Live =>
           \A i \in Slots :
               lumps[i].data.owned =>
                   /\ lumps'[i].data.owned
                   /\ (last'.op \notin MutationOps \/ last'.index # i) =>
                          lumps'[i].data = lumps[i].data]_vars

(***************************************************************************)
(* C19, amended.  Once the payload of slot i is Owned, no accessor, cast,  *)
(* release of a guard or write_to_io, and no store or resize through a     *)
(* write guard, returns it to Borrowed or copies the input again: the      *)
(* Owned payload is the same buffer until it is mutated through a write    *)
(* guard on slot i. It becomes Borrowed again only when the caller         *)
(* assigns a Borrowed payload to the data through a plain write guard on   *)
(* slot i; the next mutable use then copies once more.                     *)
(***************************************************************************)
CopyOnWriteOneWayButByAssignment ==
    [][Live =>
           \A i \in Slots :
               lumps[i].data.owned =>
                   /\ ~lumps'[i].data.owned => (last'.op = "replace" /\ last'.index = i)
                   /\ (last'.op \notin MutationOps \/ last'.index # i) =>
                          lumps'[i].data = lumps[i].data]_vars

\* a mutable cast has succeeded on a slot whose payload was assigned before, and
\* the slot still has the bytes that were assigned
OwnedKeptByMutableCast ==
    /\ pc = "parsed" /\ last.op = "lump_cast_mut" /\ last.res = "Ok"
    /\ lumps[last.index].data.owned
    /\ Norm(lumps[last.index].data.bytes) = FromSeq(<<7, 7>>)

(***************************************************************************)
(* C20.  No wrap-around in the recomputed offsets: in the header that a    *)
(* write_to_io has sent, the offset of descriptor i is the true cursor     *)
(* (the header size plus the sum of the lengths of lumps 0..i-1) and its   *)
(* length is the true length of lump i, also when the cursor or a length   *)
(* reaches 2^32 or more; the offsets are never reduced modulo 2^32, so     *)
(* they never decrease from one descriptor to the next.                    *)
(***************************************************************************)
NoWrapAround ==
    (pc = "written" /\ out # <<>>) =>
        \E h \in {header_from_bytes(out)} :
            \A i \in Slots :
                /\ h.lump_defs[i].offset = Cursor(i)
                /\ h.lump_defs[i].length = LumpLen(i)
                /\ i > 0 => u_le(h.lump_defs[i - 1].offset, h.lump_defs[i].offset)

====
